---- MODULE Spec2Model ----
(***************************************************************************)
(* A model of rules_python/whl.py: the Wheel descriptor (filename-derived  *)
(* identity, lazily cached METADATA, dependency queries) and the archive   *)
(* extraction with its permission fix-up.                                  *)
(*                                                                         *)
(* Strings are sequences of one-character strings, so that splitting,      *)
(* joining and lexicographic comparison are computed and not assumed.      *)
(***************************************************************************)
EXTENDS Integers, Sequences, FiniteSets

VARIABLES
    path,          \* Wheel._path
    nameCall,      \* last identity accessor called and what it produced
    requires_dist, \* per run: the Requires-Dist headers of the parsed METADATA
    setOrder,      \* per run: the iteration order of a set of extras (hash order)
    sys_platform,  \* the marker environment of the running interpreter
    deps,          \* per run: the last dependencies(extra) call and its output
    archive,       \* the zip file on disk at path
    umask,         \* the process umask
    _metadata,   \* Wheel._metadata (NoneObj until the first successful load)
    pc,            \* position inside the call in progress, "idle" between calls
    call,          \* the method in progress or last finished
    result,        \* how the last finished call ended
    handles,       \* open file handles on the archive (ZipFile and entry streams)
    reads,         \* completed reads of the METADATA entry
    idx,           \* expand(): position of the fix-up loop in infolist()
    disk           \* the destination directory: per entry, absent or its mode

vars == <<path, nameCall, requires_dist, setOrder, sys_platform, deps, archive,
          umask, _metadata, pc, call, result, handles, reads, idx, disk>>

nameVars == <<path, nameCall>>
depVars == <<requires_dist, setOrder, sys_platform, deps>>
wheelVars == <<archive, umask, _metadata, pc, call, result, handles, reads, idx, disk>>

(***************************************************************************)
(* Bounds of the model.                                                    *)
(***************************************************************************)
MaxBody == 3
MaxHeaders == 2
MaxEntries == 2
MaxReads == 2

(***************************************************************************)
(* Strings.                                                                *)
(***************************************************************************)
\* Code points, the order sorted() compares str by.
Code(c) ==
    CASE c = "," -> 44
      [] c = "-" -> 45
      [] c = "." -> 46
      [] c = "/" -> 47
      [] c = "1" -> 49
      [] c = "[" -> 91
      [] c = "\\" -> 92
      [] c = "]" -> 93
      [] c = "a" -> 97
      [] c = "b" -> 98
      [] c = "x" -> 120
      [] c = "y" -> 121

RECURSIVE StrLess(_, _)
StrLess(s, t) ==
    IF t = <<>> THEN FALSE
    ELSE IF s = <<>> THEN TRUE
    ELSE IF Code(Head(s)) < Code(Head(t)) THEN TRUE
    ELSE IF Code(Head(s)) > Code(Head(t)) THEN FALSE
    ELSE StrLess(Tail(s), Tail(t))

RECURSIVE Join(_, _)
Join(sep, ss) ==
    IF ss = <<>> THEN <<>>
    ELSE IF Len(ss) = 1 THEN ss[1]
    ELSE ss[1] \o sep \o Join(sep, Tail(ss))

\* str.split(sep) for a one-character sep: one part more than there are
\* separators, empty parts kept.
RECURSIVE Split(_, _)
Split(s, sep) ==
    IF \A i \in 1..Len(s) : s[i] # sep THEN <<s>>
    ELSE LET i == CHOOSE k \in 1..Len(s) :
                      s[k] = sep /\ \A j \in 1..(k - 1) : s[j] # sep
         IN  <<SubSeq(s, 1, i - 1)>> \o Split(SubSeq(s, i + 1, Len(s)), sep)

EndsWith(s, c) == Len(s) > 0 /\ s[Len(s)] = c

Strings(alphabet, n) == UNION {[1..k -> alphabet] : k \in 0..n}

(***************************************************************************)
(* Identity accessors.                                                     *)
(***************************************************************************)
BasenameWholePath(p) == p

\* os.path.basename: what follows the last "/".
Basename(p) ==
    LET slashes == {i \in 1..Len(p) : p[i] = "/"}
        last == IF slashes = {} THEN 0
                ELSE CHOOSE i \in slashes : \A j \in slashes : j <= i
    IN  SubSeq(p, last + 1, Len(p))

Parts(p) == Split(Basename(p), "-")

Returned(v) == [status |-> "ok", value |-> v]
Raised(e) == [status |-> e, value |-> <<>>]

distribution(p) == Returned(Parts(p)[1])

versionLastPart(p) == Returned(Parts(p)[Len(Parts(p))])

version(p) ==
    IF Len(Parts(p)) < 2 THEN Raised("IndexError")
    ELSE Returned(Parts(p)[2])

\* '{}-{}.dist-info'.format(distribution, version); an exception of either
\* accessor passes through.
DistInfoSuffix == <<".", "d", "i", "s", "t", "-", "i", "n", "f", "o">>

dist_info(p) ==
    IF version(p).status # "ok" THEN version(p)
    ELSE Returned(distribution(p).value \o <<"-">> \o version(p).value
                    \o DistInfoSuffix)

Distribution ==
    /\ nameCall' = [method |-> "distribution", out |-> distribution(path)]
    /\ UNCHANGED <<path, depVars, wheelVars>>

Version ==
    /\ nameCall' = [method |-> "version", out |-> version(path)]
    /\ UNCHANGED <<path, depVars, wheelVars>>

(***************************************************************************)
(* Requires-Dist headers, markers and dependencies().                      *)
(*                                                                         *)
(* A header is the text of one Requires-Dist line, kept as what it         *)
(* declares: the name, the extras in the order written, and the marker in  *)
(* disjunctive form (a sequence of "or"-ed clauses, each a sequence of     *)
(* "and"-ed comparisons; <<>> when the line has no marker).                *)
(***************************************************************************)
Runs == {1, 2}

NoExtra == <<>>
Extra(e) == <<e>>
RequestedExtras == {NoExtra, Extra("t")}

Cmp(var, op, val) == [var |-> var, op |-> op, val |-> val]
Header(n, ex, m) == [name |-> n, extras |-> ex, marker |-> m]

ExtraNames == {<<"x">>, <<"y">>}

Headers ==
    { Header(<<"a">>, <<>>, <<>>),
      Header(<<"a">>, <<>>, << <<Cmp("extra", "==", "t")>> >>),
      Header(<<"b">>, <<>>, << <<Cmp("extra", "==", "t")>> >>),
      Header(<<"b">>, <<>>, << <<Cmp("sys_platform", "==", "win32")>> >>),
      Header(<<"a">>, << <<"x">>, <<"y">> >>, <<>>),
      Header(<<"a">>, << <<"y">> >>, << <<Cmp("extra", "!=", "t")>> >>),
      Header(<<"b">>, << <<"y">>, <<"x">> >>,
             << <<Cmp("sys_platform", "==", "linux")>>, <<Cmp("extra", "==", "t")>> >>),
      Header(<<"a">>, << <<"x">> >>,
             << <<Cmp("sys_platform", "==", "win32"), Cmp("extra", "==", "t")>> >>) }

HeaderSeqs == UNION {[1..k -> Headers] : k \in 0..MaxHeaders}

Range(f) == {f[i] : i \in DOMAIN f}

\* The orders the same headers can stand in.
Reorderings(s) ==
    {[i \in 1..Len(s) |-> s[f[i]]] :
        f \in {g \in [1..Len(s) -> 1..Len(s)] :
                  \A i, j \in 1..Len(s) : i # j => g[i] # g[j]}}

\* packaging.requirements.Requirement: the extras become a set.
Requirement(h) ==
    [name |-> h.name, extras |-> Range(h.extras), marker |-> h.marker]

\* packaging.markers.default_environment() with environment['extra'] = extra.
Environment(platform, extra) ==
    [sys_platform |-> Extra(platform), extra |-> extra]

\* Marker.evaluate: a comparison holds on the variable's value; "and" binds
\* tighter than "or".
EvalCmp(c, environment) ==
    IF c.op = "==" THEN environment[c.var] = Extra(c.val)
    ELSE environment[c.var] # Extra(c.val)

Evaluate(marker, environment) ==
    \E i \in 1..Len(marker) :
        \A j \in 1..Len(marker[i]) : EvalCmp(marker[i][j], environment)

\* "parsed_requirement.marker and not parsed_requirement.marker.evaluate(...)"
\* skips the requirement; Kept is the negation of that condition.
KeptIgnoringMarker(req, environment) == TRUE

Kept(req, environment) ==
    ~(req.marker # <<>> /\ ~Evaluate(req.marker, environment))

\* Iterating a set of str: the order the process's string hashing gives.
Iterate(S, order) == SelectSeq(order, LAMBDA x : x \in S)

Project(req, order) ==
    IF req.extras # {}
    THEN req.name \o <<"[">> \o Join(<<",">>, Iterate(req.extras, order)) \o <<"]">>
    ELSE req.name

\* The loop over requires_dist, as the specifiers added, in order.
RECURSIVE Added(_, _, _)
Added(headers, environment, order) ==
    IF headers = <<>> THEN <<>>
    ELSE LET req == Requirement(Head(headers))
             rest == Added(Tail(headers), environment, order)
         IN  IF Kept(req, environment) THEN <<Project(req, order)>> \o rest
             ELSE rest

\* dependency_set: a set holds each specifier once. Its elements are handed
\* to sorted() in some order.
RECURSIVE SetToSeq(_)
SetToSeq(S) ==
    IF S = {} THEN <<>>
    ELSE LET x == CHOOSE y \in S : TRUE IN <<x>> \o SetToSeq(S \ {x})

AsList(added) == added

AsSet(added) == SetToSeq(Range(added))

\* sorted(): ascending, equal elements kept.
RECURSIVE Insert(_, _)
Insert(x, s) ==
    IF s = <<>> THEN <<x>>
    ELSE IF StrLess(Head(s), x) THEN <<Head(s)>> \o Insert(x, Tail(s))
    ELSE <<x>> \o s

RECURSIVE Sorted(_)
Sorted(s) == IF s = <<>> THEN <<>> ELSE Insert(Head(s), Sorted(Tail(s)))

dependencies(headers, platform, extra, order) ==
    Sorted(AsSet(Added(headers, Environment(platform, extra), order)))

NotCalled == [called |-> FALSE, extra |-> NoExtra, out |-> <<>>]

Dependencies(w, extra) ==
    /\ deps' = [deps EXCEPT ![w] =
                  [called |-> TRUE, extra |-> extra,
                   out |-> dependencies(requires_dist[w], sys_platform, extra,
                                        setOrder[w])]]
    /\ UNCHANGED <<requires_dist, setOrder, sys_platform, nameVars, wheelVars>>

(***************************************************************************)
(* The archive and the file modes.                                         *)
(***************************************************************************)
RECURSIVE BitAnd(_, _)
BitAnd(m, n) ==
    IF m = 0 \/ n = 0 THEN 0
    ELSE (m % 2) * (n % 2) + 2 * BitAnd(m \div 2, n \div 2)

BitOr(m, n) == m + n - BitAnd(m, n)

\* m & ~n for non-negative m and n.
BitAndNot(m, n) == m - BitAnd(m, n)

S_IFMT == \o170000
S_IFREG == \o100000
S_IFDIR == \o040000
S_IFLNK == \o120000
ExecBits == \o111
AllPerms == \o777
FileCreateMode == \o666

S_ISREG(mode) == BitAnd(mode, S_IFMT) = S_IFREG

\* current_umask(): os.umask(0) returns the mask, os.umask(mask) puts it back.
current_umask(mask) == mask

\* The mode set_extracted_file_to_default_mode_plus_executable hands to chmod.
DefaultModePlusExecutable(mask) ==
    BitOr(BitAndNot(AllPerms, current_umask(mask)), ExecBits)

\* external_attr is a 32-bit word, kept as its two 16-bit halves: the Unix
\* mode above, the DOS attributes below.
Entry(n, mode, low) ==
    [filename |-> n, external_attr |-> [hi |-> mode, lo |-> low]]

\* info.external_attr >> 16
StoredMode(info) == info.external_attr.hi

IsDirectoryMarker(name) == EndsWith(name, "/") \/ EndsWith(name, "\\")

NeedsExecutableAlsoMarkers(info) ==
    LET mode == StoredMode(info)
    IN  mode # 0 /\ S_ISREG(mode) /\ BitAnd(mode, ExecBits) # 0

\* The test of expand()'s loop body: not a directory marker, and a stored
\* mode that is a regular file with an execute bit.
NeedsExecutable(info) ==
    LET mode == StoredMode(info)
    IN  /\ ~IsDirectoryMarker(info.filename)
        /\ mode # 0 /\ S_ISREG(mode) /\ BitAnd(mode, ExecBits) # 0

Entries ==
    { Entry(<<"a">>, 0, 0),
      Entry(<<"a">>, S_IFREG + \o644, 0),
      Entry(<<"a">>, S_IFREG + \o755, 0),
      Entry(<<"a">>, S_IFREG + \o001, 32),
      Entry(<<"a">>, S_IFDIR + \o755, 16),
      Entry(<<"b">>, S_IFREG + \o010, 0),
      Entry(<<"b">>, S_IFLNK + \o777, 0),
      Entry(<<"d", "/">>, S_IFREG + \o755, 16),
      Entry(<<"e", "\\">>, S_IFREG + \o100, 0) }

InfoLists == UNION {[1..k -> Entries] : k \in 0..MaxEntries}

WheelSuffix ==
    <<"-", "p", "y", "3", "-", "n", "o", "n", "e", "-", "a", "n", "y",
      ".", "w", "h", "l">>

MetadataName == <<"/", "M", "E", "T", "A", "D", "A", "T", "A">>

\* (path, names of the archive's METADATA entries, whether the file is a zip)
Wheels ==
    { [path |-> <<"a", "-", "1">> \o WheelSuffix, valid |-> TRUE,
       names |-> {<<"a", "-", "1">> \o DistInfoSuffix \o MetadataName}],
      [path |-> <<"a", "-", "1">> \o WheelSuffix, valid |-> TRUE,
       names |-> {<<"b", "-", "1">> \o DistInfoSuffix \o MetadataName}],
      [path |-> <<"a", ".", "w", "h", "l">>, valid |-> TRUE,
       names |-> {<<"a", "-", "1">> \o DistInfoSuffix \o MetadataName}],
      [path |-> <<"a", "-", "1">> \o WheelSuffix, valid |-> FALSE,
       names |-> {}] }

Umasks == {\o022, \o077}

(***************************************************************************)
(* metadata() and the accessors built on it.                               *)
(***************************************************************************)
NoneObj == 0

\* How a call ended: the exception or "ok", the metadata object handed back,
\* and whether it came from the cache without a load.
Outcome(status, obj) == [status |-> status, obj |-> obj, cached |-> FALSE]
Cached(obj) == [status |-> "ok", obj |-> obj, cached |-> TRUE]
NoOutcome == Outcome("none", NoneObj)

\* Leaving a "with" block closes what it opened, on return and on an
\* exception alike.
WithExitOnReturnOnly(h, raising) == IF raising THEN h ELSE h - 1

WithExit(h, raising) == h - 1

MetadataCallers == {"metadata", "name", "dependencies", "extras"}

\* "if self._metadata == None" decides between loading and the cached object.
CacheHitNever(obj) == FALSE

CacheHit(obj) == obj # NoneObj

\* whl.open(name) raises KeyError for a name the archive does not hold.
EntryFoundAlways(name, names) == FALSE

EntryMissing(name, names) == name \notin names

CallMetadata(m) ==
    /\ pc = "idle"
    /\ call' = m
    /\ IF CacheHit(_metadata)
       THEN /\ result' = Cached(_metadata)
            /\ pc' = "idle"
       ELSE /\ result' = NoOutcome
            /\ pc' = "m_zip"
    /\ UNCHANGED <<archive, umask, _metadata, handles, reads, idx, disk,
                   nameVars, depVars>>

\* zipfile.ZipFile(self.path(), 'r')
MetadataOpenZip ==
    /\ pc = "m_zip"
    /\ IF archive.valid
       THEN /\ handles' = handles + 1
            /\ pc' = "m_entry"
            /\ UNCHANGED result
       ELSE /\ result' = Outcome("BadZipFile", NoneObj)
            /\ pc' = "idle"
            /\ UNCHANGED handles
    /\ UNCHANGED <<archive, umask, _metadata, call, reads, idx, disk,
                   nameVars, depVars>>

\* whl.open(self._dist_info() + '/METADATA')
MetadataOpenEntry ==
    /\ pc = "m_entry"
    /\ LET d == dist_info(path)
       IN  IF d.status # "ok"
           THEN /\ result' = Outcome(d.status, NoneObj)
                /\ handles' = WithExit(handles, TRUE)
                /\ pc' = "idle"
           ELSE IF EntryMissing(d.value \o MetadataName, archive.names)
           THEN /\ result' = Outcome("KeyError", NoneObj)
                /\ handles' = WithExit(handles, TRUE)
                /\ pc' = "idle"
           ELSE /\ handles' = handles + 1
                /\ pc' = "m_read"
                /\ UNCHANGED result
    /\ UNCHANGED <<archive, umask, _metadata, call, reads, idx, disk,
                   nameVars, depVars>>

\* f.read(), decode, parsestr; the assignment to self._metadata; both "with"
\* blocks are left.
MetadataRead ==
    /\ pc = "m_read"
    /\ reads < MaxReads
    /\ reads' = reads + 1
    /\ _metadata' = reads + 1
    /\ handles' = WithExit(WithExit(handles, FALSE), FALSE)
    /\ result' = Outcome("ok", _metadata')
    /\ pc' = "idle"
    /\ UNCHANGED <<archive, umask, call, idx, disk, nameVars, depVars>>

\* f.read() fails (an I/O error, a bad CRC): nothing is assigned.
MetadataReadFails ==
    /\ pc = "m_read"
    /\ handles' = WithExit(WithExit(handles, TRUE), TRUE)
    /\ result' = Outcome("IOError", NoneObj)
    /\ pc' = "idle"
    /\ UNCHANGED <<archive, umask, _metadata, call, reads, idx, disk,
                   nameVars, depVars>>

(***************************************************************************)
(* expand().                                                               *)
(***************************************************************************)
Files == {e.filename : e \in Entries}

Absent == [exists |-> FALSE, mode |-> 0, fixed |-> FALSE]

\* extractall creates what is not there: a directory for a name ending in
\* "/", a file otherwise, with the creation mode the umask leaves. A file
\* that exists is rewritten and keeps its mode.
Extracted(old, name, mask) ==
    IF old.exists THEN old
    ELSE [exists |-> TRUE,
          mode |-> BitAndNot(IF EndsWith(name, "/") THEN AllPerms
                             ELSE FileCreateMode, mask),
          fixed |-> FALSE]

ExtractFirst(d, infolist, k, mask) ==
    [f \in Files |->
        IF \E i \in 1..k : infolist[i].filename = f
        THEN Extracted(d[f], f, mask) ELSE d[f]]

CallExpand ==
    /\ pc = "idle"
    /\ call' = "expand"
    /\ result' = NoOutcome
    /\ pc' = "e_zip"
    /\ disk' = [f \in Files |-> [disk[f] EXCEPT !.fixed = FALSE]]
    /\ UNCHANGED <<archive, umask, _metadata, handles, reads, idx,
                   nameVars, depVars>>

\* zipfile.ZipFile(self.path(), "r", allowZip64=True)
ExpandOpenZip ==
    /\ pc = "e_zip"
    /\ IF archive.valid
       THEN /\ handles' = handles + 1
            /\ pc' = "e_extract"
            /\ UNCHANGED result
       ELSE /\ result' = Outcome("BadZipFile", NoneObj)
            /\ pc' = "idle"
            /\ UNCHANGED handles
    /\ UNCHANGED <<archive, umask, _metadata, call, reads, idx, disk,
                   nameVars, depVars>>

\* whl.extractall(directory)
ExpandExtract ==
    /\ pc = "e_extract"
    /\ disk' = ExtractFirst(disk, archive.infolist, Len(archive.infolist), umask)
    /\ idx' = 1
    /\ pc' = "e_fix"
    /\ UNCHANGED <<archive, umask, _metadata, call, result, handles, reads,
                   nameVars, depVars>>

\* extractall fails part way (destination not writable, corrupt member).
ExpandExtractFails ==
    /\ pc = "e_extract"
    /\ \E k \in 0..(Len(archive.infolist) - 1) :
          disk' = ExtractFirst(disk, archive.infolist, k, umask)
    /\ result' = Outcome("IOError", NoneObj)
    /\ handles' = WithExit(handles, TRUE)
    /\ pc' = "idle"
    /\ UNCHANGED <<archive, umask, _metadata, call, reads, idx,
                   nameVars, depVars>>

\* One iteration of "for info in whl.infolist()", the chmod succeeding.
ExpandFix ==
    /\ pc = "e_fix"
    /\ idx <= Len(archive.infolist)
    /\ LET info == archive.infolist[idx]
       IN  IF NeedsExecutable(info)
           THEN disk' = [disk EXCEPT ![info.filename] =
                           [@ EXCEPT !.mode = DefaultModePlusExecutable(umask),
                                     !.fixed = TRUE]]
           ELSE UNCHANGED disk
    /\ idx' = idx + 1
    /\ UNCHANGED <<archive, umask, _metadata, pc, call, result, handles,
                   reads, nameVars, depVars>>

\* os.chmod raises.
ExpandFixFails ==
    /\ pc = "e_fix"
    /\ idx <= Len(archive.infolist)
    /\ NeedsExecutable(archive.infolist[idx])
    /\ result' = Outcome("OSError", NoneObj)
    /\ handles' = WithExit(handles, TRUE)
    /\ pc' = "idle"
    /\ UNCHANGED <<archive, umask, _metadata, call, reads, idx, disk,
                   nameVars, depVars>>

\* The loop is over: the "with" block is left and expand returns.
ExpandReturn ==
    /\ pc = "e_fix"
    /\ idx > Len(archive.infolist)
    /\ result' = Outcome("ok", NoneObj)
    /\ handles' = WithExit(handles, FALSE)
    /\ pc' = "idle"
    /\ UNCHANGED <<archive, umask, _metadata, call, reads, idx, disk,
                   nameVars, depVars>>

(***************************************************************************)
(* Specifications.                                                         *)
(***************************************************************************)
IdleWheel ==
    /\ archive = [valid |-> TRUE, names |-> {}, infolist |-> <<>>]
    /\ umask = \o022
    /\ _metadata = NoneObj
    /\ pc = "idle"
    /\ call = "none"
    /\ result = NoOutcome
    /\ handles = 0
    /\ reads = 0
    /\ idx = 0
    /\ disk = [f \in Files |-> Absent]

NoHeaders ==
    /\ requires_dist = [w \in Runs |-> <<>>]
    /\ setOrder = [w \in Runs |-> <<>>]
    /\ sys_platform = "linux"
    /\ deps = [w \in Runs |-> NotCalled]

NoNameCall == [method |-> "none", out |-> Returned(<<>>)]

\* Identity accessors over bounded paths: a directory prefix, a body over a
\* small alphabet, and what follows it; a path names a file, so it does not
\* end in "/".
Prefixes == {<<>>, <<"d", "/">>, <<"/", "x", "-", "y", "/">>}
BodyChars == {"a", ".", "-", "/"}
Suffixes == {<<".", "w", "h", "l">>, <<"-", "a", "n", "y", ".", "w", "h", "l">>, WheelSuffix}
Paths ==
    {q \in {p \o b \o s : p \in Prefixes, b \in Strings(BodyChars, MaxBody),
                          s \in Suffixes} :
        q # <<>> /\ q[Len(q)] # "/"}

InitName ==
    /\ path \in Paths
    /\ nameCall = NoNameCall
    /\ NoHeaders
    /\ IdleWheel

NextName == Distribution \/ Version

SpecName == InitName /\ [][NextName]_vars

\* dependencies() in two runs of the program over archives whose headers
\* are the same up to order, each run with its own string hashing.
Orders == {<< <<"x">>, <<"y">> >>, << <<"y">>, <<"x">> >>}

InitDeps ==
    /\ \E hs \in HeaderSeqs, ps \in HeaderSeqs :
          /\ ps \in Reorderings(hs)
          /\ requires_dist = [w \in Runs |-> IF w = 1 THEN hs ELSE ps]
    /\ setOrder \in [Runs -> Orders]
    /\ sys_platform \in {"linux", "win32"}
    /\ deps = [w \in Runs |-> NotCalled]
    /\ path = <<"a", "-", "1">> \o WheelSuffix
    /\ nameCall = NoNameCall
    /\ IdleWheel

NextDeps == \E w \in Runs, e \in RequestedExtras : Dependencies(w, e)

SpecDeps == InitDeps /\ [][NextDeps]_vars

\* One descriptor over one archive: metadata(), its callers and expand().
InitWheel ==
    /\ \E w \in Wheels, l \in InfoLists :
          /\ path = w.path
          /\ archive = [valid |-> w.valid, names |-> w.names, infolist |-> l]
    /\ umask \in Umasks
    /\ _metadata = NoneObj
    /\ pc = "idle"
    /\ call = "none"
    /\ result = NoOutcome
    /\ handles = 0
    /\ reads = 0
    /\ idx = 0
    /\ disk = [f \in Files |-> Absent]
    /\ nameCall = NoNameCall
    /\ NoHeaders

NextWheel ==
    \/ \E m \in MetadataCallers : CallMetadata(m)
    \/ MetadataOpenZip
    \/ MetadataOpenEntry
    \/ MetadataRead
    \/ MetadataReadFails
    \/ CallExpand
    \/ ExpandOpenZip
    \/ ExpandExtract
    \/ ExpandExtractFails
    \/ ExpandFix
    \/ ExpandFixFails
    \/ ExpandReturn

SpecWheel == InitWheel /\ [][NextWheel]_vars

(***************************************************************************)
(* Properties of the identity accessors, under SpecName.                   *)
(***************************************************************************)
NoChar(s, c) == \A i \in 1..Len(s) : s[i] # c

\* path is dir \o D \o "-" \o V \o "-py3-none-any.whl", dir empty or ending
\* in "/", D and V non-empty and free of "-" and "/".
WellFormed(p, i, j) ==
    LET n == Len(p) - Len(WheelSuffix)
        D == SubSeq(p, i + 1, j - 1)
        V == SubSeq(p, j + 1, n)
    IN  /\ i < j - 1 /\ j < n
        /\ i = 0 \/ p[i] = "/"
        /\ p[j] = "-"
        /\ SubSeq(p, n + 1, Len(p)) = WheelSuffix
        /\ NoChar(D, "-") /\ NoChar(D, "/")
        /\ NoChar(V, "-") /\ NoChar(V, "/")

NoIO ==
    /\ handles = 0 /\ reads = 0 /\ pc = "idle"
    /\ \A f \in Files : ~disk[f].exists

\* C1: for a path whose base filename is D-V-py3-none-any.whl, under any
\* directory prefix, distribution() returns D and version() returns V, and
\* neither touches the archive or the disk.
C1_IdentityFromFilename ==
    \A i \in 0..Len(path), j \in 1..Len(path) :
        WellFormed(path, i, j) =>
            /\ nameCall.method = "distribution" =>
                  nameCall.out = Returned(SubSeq(path, i + 1, j - 1))
            /\ nameCall.method = "version" =>
                  nameCall.out =
                      Returned(SubSeq(path, j + 1, Len(path) - Len(WheelSuffix)))
            /\ NoIO

\* version() has answered for a well-formed file below a directory whose
\* name holds a "-".
C1_Witness ==
    /\ nameCall.method = "version"
    /\ nameCall.out = Returned(<<".">>)
    /\ path = <<"/", "x", "-", "y", "/", "a", "-", ".">> \o WheelSuffix

\* The base filename: what follows the last "/" of the path.
IsBase(p, i) ==
    /\ i = 0 \/ p[i] = "/"
    /\ \A k \in (i + 1)..Len(p) : p[k] # "/"

Hyphens(p, i) == {k \in (i + 1)..Len(p) : p[k] = "-"}

\* C8 as stated: with fewer than five segments in the base filename, a name
\* with no "-" included, distribution() and version() both return a value.
C8_NeverFails ==
    \A i \in 0..Len(path) :
        (IsBase(path, i) /\ Cardinality(Hyphens(path, i)) < 4
            /\ nameCall.method # "none")
        => nameCall.out.status = "ok"

\* C8 amended: no validation takes place. distribution() always returns
\* what precedes the first "-" (the whole base filename when there is
\* none). version() returns what lies between the first "-" and the second
\* (or the end of the name, extension included, when there is one "-"
\* only), and raises IndexError when the base filename has no "-".
C8_TooFewSegments ==
    \A i \in 0..Len(path) :
        (IsBase(path, i) /\ Cardinality(Hyphens(path, i)) < 4) =>
            LET hs == Hyphens(path, i)
                first == IF hs = {} THEN Len(path) + 1
                         ELSE CHOOSE k \in hs : \A l \in hs : k <= l
                later == hs \ {first}
                second == IF later = {} THEN Len(path) + 1
                          ELSE CHOOSE k \in later : \A l \in later : k <= l
            IN  /\ nameCall.method = "distribution" =>
                      nameCall.out = Returned(SubSeq(path, i + 1, first - 1))
                /\ (nameCall.method = "version" /\ hs # {}) =>
                      nameCall.out = Returned(SubSeq(path, first + 1, second - 1))
                /\ (nameCall.method = "version" /\ hs = {}) =>
                      nameCall.out = Raised("IndexError")

\* version() has been called on a name with no "-" and has raised.
C8_Witness ==
    /\ path = <<"d", "/", "a", ".", "w", "h", "l">>
    /\ nameCall.method = "version"
    /\ nameCall.out.status = "IndexError"

(***************************************************************************)
(* Properties of dependencies(), under SpecDeps.                           *)
(***************************************************************************)
\* What a marker says, read off the header: some "or" clause whose every
\* comparison agrees with the platform and the requested extra.
MarkerHolds(h, platform, extra) ==
    \E clause \in Range(h.marker) :
        \A c \in Range(clause) :
            LET actual == IF c.var = "extra" THEN extra ELSE <<platform>>
            IN  (c.op = "==") <=> (actual = <<c.val>>)

Survives(h, platform, extra) ==
    h.marker = <<>> \/ MarkerHolds(h, platform, extra)

SpecifierIn(w, h) == Project(Requirement(h), setOrder[w])

\* C2 as stated: the specifier of an entry is in dependencies(e) exactly
\* when that entry has no marker or its marker is true with extra = e.
C2_EntryByEntry ==
    \A w \in Runs :
        deps[w].called =>
            \A h \in Range(requires_dist[w]) :
                (SpecifierIn(w, h) \in Range(deps[w].out))
                    <=> Survives(h, sys_platform, deps[w].extra)

\* C2 amended: dependencies(e) holds a specifier exactly when some entry
\* with that specifier has no marker or a marker that is true with
\* extra = e. An entry without marker is always in; an entry whose marker is
\* false is out unless another entry with the same specifier is in.
C2_SurvivingEntries ==
    \A w \in Runs :
        deps[w].called =>
            Range(deps[w].out) =
                {SpecifierIn(w, h) :
                    h \in {g \in Range(requires_dist[w]) :
                              Survives(g, sys_platform, deps[w].extra)}}

\* "b; extra == 't'" is left out of dependencies(None) in one run and is in
\* dependencies("t") in the other.
C2_Witness ==
    /\ Header(<<"b">>, <<>>, << <<Cmp("extra", "==", "t")>> >>)
          \in Range(requires_dist[1])
    /\ deps[1].called /\ deps[1].extra = NoExtra
    /\ <<"b">> \notin Range(deps[1].out)
    /\ deps[2].called /\ deps[2].extra = Extra("t")
    /\ <<"b">> \in Range(deps[2].out)

\* Lexicographic order by code point: the strings agree up to a position
\* where s ends first or holds the smaller character.
Before(s, t) ==
    \E k \in 1..(Len(s) + 1) :
        /\ k <= Len(t)
        /\ \A i \in 1..(k - 1) : s[i] = t[i]
        /\ k = Len(s) + 1 \/ Code(s[k]) < Code(t[k])

\* C3: the output of dependencies(extra) is strictly ascending, hence free
\* of duplicates, also when several surviving headers name the same
\* dependency.
C3_StrictlyAscending ==
    \A w \in Runs :
        deps[w].called =>
            \A i, j \in 1..Len(deps[w].out) :
                i < j => Before(deps[w].out[i], deps[w].out[j])

\* "a" and "a; extra == 't'" both survive for extra "t" and "a" is listed
\* once.
C3_Witness ==
    /\ requires_dist[1] =
          << Header(<<"a">>, <<>>, <<>>),
             Header(<<"a">>, <<>>, << <<Cmp("extra", "==", "t")>> >>) >>
    /\ deps[1].called /\ deps[1].extra = Extra("t")
    /\ deps[1].out = << <<"a">> >>

\* C4: two runs over the same headers, in any order, asked for the same
\* extra, give the same output, whatever order a set of extras iterates in.
C4_SameOutput ==
    \A v, w \in Runs :
        (deps[v].called /\ deps[w].called /\ deps[v].extra = deps[w].extra)
            => deps[v].out = deps[w].out

\* C5: a surviving requirement is listed as its name, followed, when it
\* names extras, by "[", the extras in the order declared joined by ",",
\* and "]".
C5_ExtrasAsDeclared ==
    \A w \in Runs :
        deps[w].called =>
            \A h \in Range(requires_dist[w]) :
                Survives(h, sys_platform, deps[w].extra) =>
                    (IF h.extras = <<>> THEN h.name
                     ELSE h.name \o <<"[">> \o Join(<<",">>, h.extras) \o <<"]">>)
                        \in Range(deps[w].out)

(***************************************************************************)
(* Properties of metadata() and expand(), under SpecWheel.                 *)
(***************************************************************************)
\* C6: the METADATA entry is read at most once; once self._metadata is set
\* it is never replaced, and a later metadata(), name(), dependencies() or
\* extras() hands back that same object without opening or reading the
\* archive.
C6_LoadedOnce ==
    /\ [](reads <= 1)
    /\ [][_metadata # NoneObj =>
             /\ _metadata' = _metadata
             /\ reads' = reads
             /\ (pc = "idle" /\ call' \in MetadataCallers) =>
                   /\ pc' = "idle"
                   /\ handles' = handles
                   /\ result' = Cached(_metadata)]_vars

\* dependencies() has been answered from the cache after the one read.
C6_Witness ==
    /\ pc = "idle" /\ call = "dependencies"
    /\ reads = 1
    /\ result.cached /\ result.obj = _metadata /\ _metadata # NoneObj

\* The archive of the model named a-1-py3-none-any.whl that holds no
\* a-1.dist-info/METADATA.
EntryAbsent ==
    /\ archive.valid
    /\ path = <<"a", "-", "1">> \o WheelSuffix
    /\ (<<"a", "-", "1", ".", "d", "i", "s", "t", "-", "i", "n", "f", "o",
          "/", "M", "E", "T", "A", "D", "A", "T", "A">>) \notin archive.names

\* C9: without the dist-info METADATA entry, metadata() and its callers
\* end in KeyError, self._metadata stays None, and the next call opens the
\* archive again.
C9_MissingEntry ==
    /\ []((EntryAbsent /\ pc = "idle" /\ call \in MetadataCallers)
            => (result.status = "KeyError" /\ _metadata = NoneObj))
    /\ [][(EntryAbsent /\ pc = "idle" /\ result.status = "KeyError"
             /\ call' \in MetadataCallers /\ result' # result)
            => pc' = "m_zip"]_vars
    /\ [](EntryAbsent => reads = 0)

\* name() has failed for want of the entry.
C9_Witness ==
    /\ EntryAbsent
    /\ pc = "idle" /\ call = "name"
    /\ result.status = "KeyError"
    /\ _metadata = NoneObj

\* C10: between calls no handle on the archive is open, however the call
\* ended; during a call at most the ZipFile and one entry stream are.
C10_HandlesClosed ==
    /\ pc = "idle" => handles = 0
    /\ handles \in 0..2

\* expand() has ended in the exception of a chmod, after an earlier chmod
\* went through.
C10_Witness ==
    /\ pc = "idle" /\ handles = 0
    /\ call = "expand" /\ result.status = "OSError"
    /\ \E f \in Files : disk[f].fixed

\* What the stored mode of an entry says, bit by bit.
Bit(n, k) == (n \div (2 ^ k)) % 2

Qualifies(info) ==
    LET n == info.filename
        mode == info.external_attr.hi
    IN  /\ n[Len(n)] \notin {"/", "\\"}
        /\ mode \div 4096 = 8
        /\ \E k \in {0, 3, 6} : Bit(mode, k) = 1

ModeApplied(m, mask) ==
    /\ m \in 0..511
    /\ \A k \in 0..8 : Bit(m, k) = 1 <=> (k \in {0, 3, 6} \/ Bit(mask, k) = 0)

EntriesOf(f) ==
    {archive.infolist[i] : i \in {k \in 1..Len(archive.infolist) :
                                     archive.infolist[k].filename = f}}

\* C7: expand() changes the permissions of an extracted file only for an
\* entry of that name that is no directory marker and whose stored mode is
\* a regular file with an execute bit, and then to
\* (0o777 & ~umask) | 0o111; after expand() has returned, every file with
\* such an entry has been changed.
C7_PermissionFixup ==
    /\ \A f \in Files :
          disk[f].fixed =>
              /\ \E info \in EntriesOf(f) : Qualifies(info)
              /\ ModeApplied(disk[f].mode, umask)
    /\ (pc = "idle" /\ call = "expand" /\ result.status = "ok") =>
          \A f \in Files :
              (\E info \in EntriesOf(f) : Qualifies(info)) => disk[f].fixed

\* expand() has returned over an archive with an executable file, which was
\* changed, and a directory marker stored with execute bits, which was not.
C7_Witness ==
    /\ pc = "idle" /\ call = "expand" /\ result.status = "ok"
    /\ disk[<<"a">>].fixed
    /\ Bit(disk[<<"a">>].mode, 0) = 1
    /\ disk[<<"d", "/">>].exists /\ ~disk[<<"d", "/">>].fixed

====
